---- MODULE Spec2Model ----
(***************************************************************************)
(* The in-memory output buffer of fluxion (package buffer: Memory,         *)
(* MemoryChunk, Push, Close, pop), as a state machine of the goroutines    *)
(* that share one Memory: the producers calling Push, the flusher          *)
(* goroutine pop started by NewMemory, and the caller of Close.            *)
(*                                                                         *)
(* The chunk list is a sequence whose first element is list.Front (the     *)
(* head, which accepts pushes) and whose last element is list.Back (the    *)
(* tail, the next chunk to flush).                                         *)
(***************************************************************************)
EXTENDS Integers, Sequences, FiniteSets, TLC

\* ------------------------------------------------------------ bounds
MaxChunkSize == 3      \* opts.MaxChunkSize of the buffer under test
MaxQueueSize == 2      \* largest opts.MaxQueueSize tried (1..MaxQueueSize)
MaxPush      == 3      \* calls of Push
MaxFail      == 1      \* handler.Write calls of the flusher that return an error

Pushers == {"p1", "p2"}
NoChunk == 0

\* Sizer.Size() of the items offered to Push: small, exactly full, too large
ItemSizes == {1, MaxChunkSize, MaxChunkSize + 1}

\* Sizer.Size() is int64(len(s)): the items offered when empty items are among
\* them
ItemSizesZero == {0, 1, MaxChunkSize}

VARIABLES
    chunks,        \* Memory.chunks: <<head, ..., tail>> of MemoryChunk
    maxChunkSize,  \* Memory.maxChunkSize
    maxQueueSize,  \* Memory.maxQueueSize
    closed,        \* Memory.closed
    chClosed,      \* eventCh has been closed
    mutex,         \* Memory.m: "free" or the goroutine that holds it
    pc,            \* position of every goroutine
    pn,            \* Push: n, the size of the item being pushed
    pe,            \* Push: e, the list element (chunk id) the item goes to
    result,        \* Push: what the last call returned
    ci,            \* Close: position of e in the loop over the list
    inWrite,       \* handler.Write calls in progress
    nextItem,      \* history: number the next accepted item gets
    nextChunk,     \* history: identity of the next MemoryChunk allocated
    pushCalls,     \* history: calls of Push so far
    fails,         \* history: failed writes so far
    presented,     \* history: items passed to handler.Write so far
    evicted,       \* history: chunks removed by the overflow eviction
    retry,         \* history: what the last failed write left uncommitted
    closeWrites    \* history: chunk ids written by Close, in order

vars == <<chunks, maxChunkSize, maxQueueSize, closed, chClosed, mutex, pc, pn,
          pe, result, ci, inWrite, nextItem, nextChunk, pushCalls, fails,
          presented, evicted, retry, closeWrites>>

bufVars  == <<chunks, maxChunkSize, maxQueueSize, closed, chClosed>>
histVars == <<nextItem, nextChunk, pushCalls, fails, presented, evicted,
              retry, closeWrites>>

NoRetry == [cid |-> NoChunk, rest |-> <<>>]

\* The other components of the program, each one object with its fields:
VARIABLES
    engine,        \* the Engine (package engine)
    called,        \* history: the last call on the Engine and what it did
    stopping,      \* Engine.Stop: its position, its goroutines, the supervisor
    forward,       \* the in-forward input: the frame read and the events emitted
    tail           \* the TailInput (in-tail) and the goroutines that use it

\* what the goroutines of one Memory leave alone
notMemory == <<engine, called, stopping, forward, tail>>
allVars == <<vars, engine, called, stopping, forward, tail>>

\* ------------------------------------------------------------ initial objects
NoUnit == 0

\* engine.New(): no plugin, no unit, empty routers, the "default" buffer
New ==
    [plugins |-> {}, embeds |-> <<>>, pm |-> {}, units |-> <<>>, filters |-> <<>>,
     tr |-> <<>>, ftr |-> <<>>, router |-> <<>>, bufs |-> {"default"}, unitID |-> 0]

NotCalled == [op |-> "none"]

\* before Engine.Stop is called
NotStopping ==
    [pc |-> "idle", timer |-> "unset", begun |-> {}, acked |-> {}, returned |-> {},
     exited |-> {}, waited |-> FALSE, stopped |-> FALSE, mute |-> {}]

\* in-forward before handleConnection has read a frame
ForwardIdle == [pc |-> "idle"]

\* &TailInput{} before Init and Start
TailInputNew ==
    [m |-> FALSE, rotating |-> FALSE, r |-> 0, readers |-> 0, closed |-> {},
     pc |-> "new", open |-> <<>>, reading |-> 0, lines |-> FALSE]

\* ------------------------------------------------------------ list and chunk
MemoryChunk(id) == [id |-> id, Size |-> 0, Items |-> <<>>]

\* MemoryChunk.Push
ChunkPush(c, s) == [c EXCEPT !.Size = @ + s.size, !.Items = Append(@, s)]

Front(l) == l[1]
Back(l)  == l[Len(l)]
PushFront(l, c) == <<c>> \o l
\* a Remove that takes the element at the wrong end of the list
RemoveFrontNotBack(l) == SubSeq(l, 2, Len(l))
RemoveBack(l) == SubSeq(l, 1, Len(l) - 1)
\* list.Remove(e): e is a pointer to an element, here the chunk's identity
Remove(l, id) == SelectSeq(l, LAMBDA c : c.id # id)
ChunkIds(l) == {l[i].id : i \in 1..Len(l)}
ItemIds(items) == {items[i].id : i \in 1..Len(items)}
QueuedItems(l) == UNION {ItemIds(l[i].Items) : i \in 1..Len(l)}

\* the element of l with identity id gets item s (e.Value.(*MemoryChunk).Push(s))
PushInto(l, id, s) == [i \in 1..Len(l) |-> IF l[i].id = id THEN ChunkPush(l[i], s) ELSE l[i]]

\* ------------------------------------------------------------ Push
\* a size check that is off by one
TooLargeOffByOne(n) == n > maxChunkSize + 1

\* the size check of Push
TooLarge(n) == n > maxChunkSize

\* a test of the head that forgets the size of the new item
HeadFullWithoutItem(e, n) == e.Size > maxChunkSize

\* "e.Value.(*MemoryChunk).Size+n > m.maxChunkSize"
HeadFull(e, n) == e.Size + n > maxChunkSize

\* "int64(m.chunks.Len()) > m.maxQueueSize"
QueueOver(l) == Len(l) > maxQueueSize

\* a producer calls Push(s); n := s.Size()
PushCall(p, n) ==
    /\ UNCHANGED notMemory
    /\ pc[p] = "idle"
    /\ pushCalls < MaxPush
    /\ pc' = [pc EXCEPT ![p] = "check"]
    /\ pn' = [pn EXCEPT ![p] = n]
    /\ result' = [result EXCEPT ![p] = "none"]
    /\ pushCalls' = pushCalls + 1
    /\ UNCHANGED <<bufVars, mutex, pe, ci, inWrite, nextItem, nextChunk, fails,
                   presented, evicted, retry, closeWrites>>

\* "if n > m.maxChunkSize { return fmt.Errorf(...) }"; otherwise on to m.m.Lock()
PushCheck(p) ==
    /\ UNCHANGED notMemory
    /\ pc[p] = "check"
    /\ IF TooLarge(pn[p])
       THEN /\ pc' = [pc EXCEPT ![p] = "idle"]
            /\ result' = [result EXCEPT ![p] = "error"]
            /\ pn' = [pn EXCEPT ![p] = 0]
       ELSE /\ pc' = [pc EXCEPT ![p] = "lock"]
            /\ UNCHANGED <<result, pn>>
    /\ UNCHANGED <<bufVars, mutex, pe, ci, inWrite, histVars>>

\* m.m.Lock(); e := m.chunks.Front(); the test of the head
PushLock(p) ==
    /\ UNCHANGED notMemory
    /\ pc[p] = "lock"
    /\ mutex = "free"
    /\ mutex' = p
    /\ IF chunks = <<>>
       THEN /\ pc' = [pc EXCEPT ![p] = "alloc"]
            /\ pe' = [pe EXCEPT ![p] = NoChunk]
       ELSE IF HeadFull(Front(chunks), pn[p])
            THEN /\ pc' = [pc EXCEPT ![p] = "send"]
                 /\ pe' = [pe EXCEPT ![p] = Front(chunks).id]
            ELSE /\ pc' = [pc EXCEPT ![p] = "append"]
                 /\ pe' = [pe EXCEPT ![p] = Front(chunks).id]
    /\ UNCHANGED <<bufVars, pn, result, ci, inWrite, histVars>>

\* "m.eventCh <- true" on the closed channel: the send panics, the deferred
\* Unlock runs
PushSendPanic(p) ==
    /\ UNCHANGED notMemory
    /\ pc[p] = "send"
    /\ chClosed
    /\ pc' = [pc EXCEPT ![p] = "panicked"]
    /\ result' = [result EXCEPT ![p] = "panic"]
    /\ mutex' = "free"
    /\ pn' = [pn EXCEPT ![p] = 0]
    /\ pe' = [pe EXCEPT ![p] = NoChunk]
    /\ UNCHANGED <<bufVars, ci, inWrite, histVars>>

\* e = m.chunks.PushFront(&MemoryChunk{})
PushAlloc(p) ==
    /\ UNCHANGED notMemory
    /\ pc[p] = "alloc"
    /\ chunks' = PushFront(chunks, MemoryChunk(nextChunk))
    /\ pe' = [pe EXCEPT ![p] = nextChunk]
    /\ nextChunk' = nextChunk + 1
    /\ pc' = [pc EXCEPT ![p] = "evict"]
    /\ UNCHANGED <<maxChunkSize, maxQueueSize, closed, chClosed, mutex, pn,
                   result, ci, inWrite, nextItem, pushCalls, fails, presented,
                   evicted, retry, closeWrites>>

\* if Len > maxQueueSize { m.chunks.Remove(m.chunks.Back()) }
PushEvict(p) ==
    /\ UNCHANGED notMemory
    /\ pc[p] = "evict"
    /\ IF QueueOver(chunks)
       THEN /\ chunks' = RemoveBack(chunks)
            /\ evicted' = Append(evicted, Back(chunks))
            /\ retry' = IF retry.cid = Back(chunks).id THEN NoRetry ELSE retry
       ELSE UNCHANGED <<chunks, evicted, retry>>
    /\ pc' = [pc EXCEPT ![p] = "append"]
    /\ UNCHANGED <<maxChunkSize, maxQueueSize, closed, chClosed, mutex, pn, pe,
                   result, ci, inWrite, nextItem, nextChunk, pushCalls, fails,
                   presented, closeWrites>>

\* e.Value.(*MemoryChunk).Push(s); return nil (the deferred Unlock runs)
PushAppend(p) ==
    /\ UNCHANGED notMemory
    /\ pc[p] = "append"
    /\ LET s == [id |-> nextItem, size |-> pn[p]]
       IN /\ chunks' = PushInto(chunks, pe[p], s)
          /\ retry' = IF retry.cid = pe[p] /\ pe[p] \in ChunkIds(chunks)
                      THEN [retry EXCEPT !.rest = Append(@, s)]
                      ELSE retry
    /\ nextItem' = nextItem + 1
    /\ mutex' = "free"
    /\ pc' = [pc EXCEPT ![p] = "idle"]
    /\ result' = [result EXCEPT ![p] = "ok"]
    /\ pn' = [pn EXCEPT ![p] = 0]
    /\ pe' = [pe EXCEPT ![p] = NoChunk]
    /\ UNCHANGED <<maxChunkSize, maxQueueSize, closed, chClosed, ci,
                   inWrite, nextChunk, pushCalls, fails, presented, evicted,
                   closeWrites>>

\* ------------------------------------------------------------ pop (the flusher)
\* copy(chunk.Items, chunk.Items[n:]): the elements of items[n:] are copied to
\* the front of items; the slice keeps its length, so its last n elements stay
CopyItems(items, n) ==
    [i \in 1..Len(items) |-> IF i <= Len(items) - n THEN items[i + n] ELSE items[i]]

\* the chunk with identity id after the copy of a failed write
CopyIn(l, id, n) ==
    [i \in 1..Len(l) |-> IF l[i].id = id
                         THEN [l[i] EXCEPT !.Items = CopyItems(@, n)]
                         ELSE l[i]]

\* "case <-tick:" of the select
popTick ==
    /\ UNCHANGED notMemory
    /\ pc["flusher"] = "select"
    /\ pc' = [pc EXCEPT !["flusher"] = "lock"]
    /\ UNCHANGED <<bufVars, mutex, pn, pe, result, ci, inWrite, histVars>>

\* "case <-m.eventCh:" meets the send of Push(p) on the unbuffered channel;
\* m.closed is read without the mutex, so while Close is between its two
\* first statements the read may see either value
popRecv(p) ==
    /\ UNCHANGED notMemory
    /\ pc["flusher"] = "select"
    /\ pc[p] = "send"
    /\ ~chClosed
    /\ \E sawClosed \in (IF closed THEN {TRUE, FALSE} ELSE {FALSE}) :
          pc' = [pc EXCEPT ![p] = "alloc",
                           !["flusher"] = IF sawClosed THEN "exited" ELSE "lock"]
    /\ UNCHANGED <<bufVars, mutex, pn, pe, result, ci, inWrite, histVars>>

\* "case <-m.eventCh:" on the closed channel; m.closed was set before the close
popRecvClosed ==
    /\ UNCHANGED notMemory
    /\ pc["flusher"] = "select"
    /\ chClosed
    /\ pc' = [pc EXCEPT !["flusher"] = IF closed THEN "exited" ELSE "lock"]
    /\ UNCHANGED <<bufVars, mutex, pn, pe, result, ci, inWrite, histVars>>

\* the mutex as pop takes it
popMayLock == mutex = "free"

\* m.m.Lock(); e := m.chunks.Back(); nil: Unlock and continue; otherwise
\* handler.Write(chunk.Items) is called with the mutex held
popLock ==
    /\ UNCHANGED notMemory
    /\ pc["flusher"] = "lock"
    /\ popMayLock
    /\ IF chunks = <<>>
       THEN /\ pc' = [pc EXCEPT !["flusher"] = "select"]
            /\ UNCHANGED <<mutex, inWrite, presented>>
       ELSE /\ mutex' = "flusher"
            /\ pc' = [pc EXCEPT !["flusher"] = "write"]
            /\ inWrite' = inWrite \cup {[by |-> "flusher", cid |-> Back(chunks).id,
                                         items |-> Back(chunks).Items]}
            /\ presented' = presented \cup ItemIds(Back(chunks).Items)
    /\ UNCHANGED <<bufVars, pn, pe, result, ci, nextItem, nextChunk, pushCalls,
                   fails, evicted, retry, closeWrites>>

\* the write of the flusher that is in progress
popWrite == CHOOSE w \in inWrite : w.by = "flusher"

\* a successful write that removes the head of the list, not the chunk written
popRemoveFront(l, id) == SubSeq(l, 2, Len(l))

\* the chunk list after a successful write: m.chunks.Remove(e)
popRemove(l, id) == Remove(l, id)

\* Write returned (n, nil): m.chunks.Remove(e); m.m.Unlock()
popWriteOk ==
    /\ UNCHANGED notMemory
    /\ pc["flusher"] = "write"
    /\ chunks' = popRemove(chunks, popWrite.cid)
    /\ retry' = IF retry.cid = popWrite.cid THEN NoRetry ELSE retry
    /\ inWrite' = inWrite \ {popWrite}
    /\ mutex' = "free"
    /\ pc' = [pc EXCEPT !["flusher"] = "select"]
    /\ UNCHANGED <<maxChunkSize, maxQueueSize, closed, chClosed, pn, pe, result,
                   ci, nextItem, nextChunk, pushCalls, fails, presented, evicted,
                   closeWrites>>

\* Write returned (n, err), 0 <= n <= len(chunk.Items):
\* copy(chunk.Items, chunk.Items[n:]); m.m.Unlock()
popWriteErr(n) ==
    /\ UNCHANGED notMemory
    /\ pc["flusher"] = "write"
    /\ fails < MaxFail
    /\ n \in 0..Len(popWrite.items)
    /\ chunks' = CopyIn(chunks, popWrite.cid, n)
    /\ retry' = IF popWrite.cid \in ChunkIds(chunks)
                THEN [cid |-> popWrite.cid,
                      rest |-> SubSeq(popWrite.items, n + 1, Len(popWrite.items))]
                ELSE retry
    /\ fails' = fails + 1
    /\ inWrite' = inWrite \ {popWrite}
    /\ mutex' = "free"
    /\ pc' = [pc EXCEPT !["flusher"] = "select"]
    /\ UNCHANGED <<maxChunkSize, maxQueueSize, closed, chClosed, pn, pe, result,
                   ci, nextItem, nextChunk, pushCalls, presented, evicted,
                   closeWrites>>

\* ------------------------------------------------------------ Close
\* m.closed = true
CloseMark ==
    /\ UNCHANGED notMemory
    /\ pc["closer"] = "idle"
    /\ closed' = TRUE
    /\ pc' = [pc EXCEPT !["closer"] = "closech"]
    /\ UNCHANGED <<chunks, maxChunkSize, maxQueueSize, chClosed, mutex, pn, pe,
                   result, ci, inWrite, histVars>>

\* close(m.eventCh)
CloseChan ==
    /\ UNCHANGED notMemory
    /\ pc["closer"] = "closech"
    /\ chClosed' = TRUE
    /\ pc' = [pc EXCEPT !["closer"] = "lock"]
    /\ UNCHANGED <<chunks, maxChunkSize, maxQueueSize, closed, mutex, pn, pe,
                   result, ci, inWrite, histVars>>

\* a Close that does not wait for the mutex
CloseWithoutLock == TRUE

\* the mutex as Close takes it
CloseMayLock == mutex = "free"

\* m.m.Lock(); e := m.chunks.Front()
CloseLock ==
    /\ UNCHANGED notMemory
    /\ pc["closer"] = "lock"
    /\ CloseMayLock
    /\ mutex' = "closer"
    /\ ci' = 1
    /\ pc' = [pc EXCEPT !["closer"] = "loop"]
    /\ UNCHANGED <<bufVars, pn, pe, result, inWrite, histVars>>

\* the list element the loop of Close visits at step i: from Front, by Next
CloseElem(l, i) == l[i]

\* loop body: m.handler.Write(e.Value.(*MemoryChunk).Items) is called
CloseWrite ==
    /\ UNCHANGED notMemory
    /\ pc["closer"] = "loop"
    /\ ci <= Len(chunks)
    /\ LET c == CloseElem(chunks, ci)
       IN /\ inWrite' = inWrite \cup {[by |-> "closer", cid |-> c.id, items |-> c.Items]}
          /\ presented' = presented \cup ItemIds(c.Items)
          /\ closeWrites' = Append(closeWrites, c.id)
    /\ pc' = [pc EXCEPT !["closer"] = "write"]
    /\ UNCHANGED <<bufVars, mutex, pn, pe, result, ci, nextItem, nextChunk,
                   pushCalls, fails, evicted, retry>>

\* Write returned; its results are dropped; e = e.Next()
CloseWriteReturn ==
    /\ UNCHANGED notMemory
    /\ pc["closer"] = "write"
    /\ inWrite' = {w \in inWrite : w.by # "closer"}
    /\ ci' = ci + 1
    /\ pc' = [pc EXCEPT !["closer"] = "loop"]
    /\ UNCHANGED <<bufVars, mutex, pn, pe, result, histVars>>

\* e == nil: m.chunks.Init(); return (the deferred Unlock runs)
CloseInit ==
    /\ UNCHANGED notMemory
    /\ pc["closer"] = "loop"
    /\ ci > Len(chunks)
    /\ chunks' = <<>>
    /\ retry' = NoRetry
    /\ mutex' = "free"
    /\ pc' = [pc EXCEPT !["closer"] = "done"]
    /\ UNCHANGED <<maxChunkSize, maxQueueSize, closed, chClosed, pn, pe, result,
                   ci, inWrite, nextItem, nextChunk, pushCalls, fails, presented,
                   evicted, closeWrites>>

\* ------------------------------------------------------------ specification
\* NewMemory: an empty list, an open channel, the flusher started
NewMemory ==
    /\ chunks = <<>>
    /\ maxChunkSize = MaxChunkSize
    /\ maxQueueSize \in 1..MaxQueueSize
    /\ closed = FALSE
    /\ chClosed = FALSE
    /\ mutex = "free"
    /\ pc = [t \in Pushers \cup {"flusher", "closer"} |->
                IF t = "flusher" THEN "select" ELSE "idle"]
    /\ pn = [p \in Pushers |-> 0]
    /\ pe = [p \in Pushers |-> NoChunk]
    /\ result = [p \in Pushers |-> "none"]
    /\ ci = 0
    /\ inWrite = {}
    /\ nextItem = 1
    /\ nextChunk = 1
    /\ pushCalls = 0
    /\ fails = 0
    /\ presented = {}
    /\ evicted = <<>>
    /\ retry = NoRetry
    /\ closeWrites = <<>>

\* the program before anything has run: one buffer, the engine of New(), no
\* Stop called, no frame read by in-forward, the tail input not yet started
Init ==
    /\ NewMemory
    /\ engine = New
    /\ called = NotCalled
    /\ stopping = NotStopping
    /\ forward = ForwardIdle
    /\ tail = TailInputNew

Next ==
    \/ \E p \in Pushers : \E n \in ItemSizes : PushCall(p, n)
    \/ \E p \in Pushers : PushCheck(p)
    \/ \E p \in Pushers : PushLock(p)
    \/ \E p \in Pushers : PushSendPanic(p)
    \/ \E p \in Pushers : PushAlloc(p)
    \/ \E p \in Pushers : PushEvict(p)
    \/ \E p \in Pushers : PushAppend(p)
    \/ popTick
    \/ \E p \in Pushers : popRecv(p)
    \/ popRecvClosed
    \/ popLock
    \/ popWriteOk
    \/ \E n \in 0..MaxChunkSize : popWriteErr(n)
    \/ CloseMark
    \/ CloseChan
    \/ CloseLock
    \/ CloseWrite
    \/ CloseWriteReturn
    \/ CloseInit

Spec == Init /\ [][Next]_allVars

\* the same buffer, offered items of size 0, 1 and max_chunk_size
NextZero ==
    \/ \E p \in Pushers : \E n \in ItemSizesZero : PushCall(p, n)
    \/ \E p \in Pushers : PushCheck(p)
    \/ \E p \in Pushers : PushLock(p)
    \/ \E p \in Pushers : PushSendPanic(p)
    \/ \E p \in Pushers : PushAlloc(p)
    \/ \E p \in Pushers : PushEvict(p)
    \/ \E p \in Pushers : PushAppend(p)
    \/ popTick
    \/ \E p \in Pushers : popRecv(p)
    \/ popRecvClosed
    \/ popLock
    \/ popWriteOk
    \/ \E n \in 0..MaxChunkSize : popWriteErr(n)
    \/ CloseMark
    \/ CloseChan
    \/ CloseLock
    \/ CloseWrite
    \/ CloseWriteReturn
    \/ CloseInit

SpecZero == Init /\ [][NextZero]_allVars

\* ------------------------------------------------------------ properties
EvictedItems == UNION {ItemIds(evicted[k].Items) : k \in 1..Len(evicted)}
Accepted == 1..(nextItem - 1)

\* C1: whenever the buffer mutex is not held, the queue holds at most
\* max_queue_size chunks and the Size of every queued chunk is at most
\* max_chunk_size.
C1_QueueAndChunkBounded ==
    mutex = "free" =>
        /\ Len(chunks) <= maxQueueSize
        /\ \A i \in 1..Len(chunks) : chunks[i].Size <= maxChunkSize

\* a full queue of full chunks after an eviction, nobody holding the mutex
C1_Witness ==
    /\ mutex = "free"
    /\ maxQueueSize = 2
    /\ Len(chunks) = maxQueueSize
    /\ \A i \in 1..Len(chunks) : chunks[i].Size = maxChunkSize
    /\ evicted # <<>>

\* C2: after a write of the flusher failed with n items committed, the next
\* write of that chunk presents exactly the items that were not committed
\* (followed by what was pushed into the chunk since), in their order.
C2_RetryPresentsRemainder ==
    \A w \in inWrite :
        (w.by = "flusher" /\ retry.cid = w.cid) => w.items = retry.rest

\* C3: the flusher writes the oldest chunk of the queue, and the items of one
\* Write call are in the order in which they were pushed.
C3_FifoWrites ==
    \A w \in inWrite :
        w.by = "flusher" =>
            /\ \A i \in 1..Len(chunks) : w.cid <= chunks[i].id
            /\ \A i, j \in 1..Len(w.items) : i < j => w.items[i].id <= w.items[j].id

C5_NoSendUnderLock ==
    ~ \E p \in Pushers : pc[p] = "send" /\ mutex = p /\ pc["flusher"] = "lock"

\* C6: at most one handler.Write call is in progress at any time.
C6_OneWriteAtATime == Cardinality(inWrite) <= 1

\* Close waits for the mutex while a write of the flusher is in progress
C6_Witness ==
    /\ pc["closer"] = "lock"
    /\ \E w \in inWrite : w.by = "flusher"

\* C7: when Close returns it has handed every chunk of the queue to
\* handler.Write exactly once, the oldest chunk first and the newest last,
\* and it leaves the queue empty.
C7_CloseDrainsTailToHead ==
    [][(pc["closer"] = "loop" /\ pc'["closer"] = "done") =>
         /\ Len(closeWrites) = Len(chunks)
         /\ {closeWrites[i] : i \in 1..Len(closeWrites)} = ChunkIds(chunks)
         /\ \A i, j \in 1..Len(closeWrites) : i < j => closeWrites[i] < closeWrites[j]
         /\ chunks' = <<>>
      ]_vars

\* C8: a Push that allocated a head chunk and found the queue longer than
\* max_queue_size removes exactly one chunk, the oldest; the item then goes to
\* the new head and Push returns no error; with max_queue_size = 1 the queue
\* holds the new chunk only.
C8_EvictsOldestKeepsItem ==
    [][\A p \in Pushers :
         /\ (pc[p] = "evict" /\ pc'[p] = "append" /\ Len(chunks) > maxQueueSize) =>
               /\ Len(chunks') = Len(chunks) - 1
               /\ \E old \in ChunkIds(chunks) :
                     /\ \A c \in ChunkIds(chunks) : old <= c
                     /\ ChunkIds(chunks') = ChunkIds(chunks) \ {old}
               /\ Front(chunks').id = pe[p]
               /\ maxQueueSize = 1 => ChunkIds(chunks') = {pe[p]}
         /\ (/\ pc[p] = "append" /\ pc'[p] = "idle"
             /\ \A i \in 1..Len(chunks) : chunks[i].id = pe[p] => chunks[i].Items = <<>>) =>
               /\ chunks' # <<>>
               /\ Front(chunks').id = pe[p]
               /\ Len(Front(chunks').Items) = 1
               /\ Front(chunks').Items[1] = [id |-> nextItem, size |-> pn[p]]
               /\ result'[p] = "ok"
      ]_vars

\* with max_queue_size = 1 a second chunk was created: the first one is gone,
\* the queue holds the new chunk with the pushed item, Push returned no error
C8_Witness ==
    /\ maxQueueSize = 1
    /\ Len(evicted) = 1
    /\ Len(chunks) = 1
    /\ Front(chunks).id > evicted[1].id
    /\ Len(Front(chunks).Items) = 1
    /\ \E p \in Pushers : result[p] = "ok" /\ pc[p] = "idle"

\* C9: every overflow eviction is counted: the step of Push that evicts a
\* chunk changes a field of the buffer besides the chunk list and the mutex.
C9_EvictionCounted ==
    [][Len(evicted') > Len(evicted) =>
         <<maxChunkSize, maxQueueSize, closed, chClosed>>' #
         <<maxChunkSize, maxQueueSize, closed, chClosed>>]_vars

\* C10: Push of an item larger than max_chunk_size returns an error, leaves the
\* queue and every chunk as they were and does not wake the flusher.
C10_OversizeRejected ==
    [][\A p \in Pushers :
         (pc[p] = "check" /\ pn[p] > maxChunkSize /\ pc'[p] # "check") =>
             /\ pc'[p] = "idle"
             /\ result'[p] = "error"
             /\ UNCHANGED <<chunks, closed, chClosed, mutex, inWrite, nextItem,
                            nextChunk, presented, evicted>>
             /\ pc'["flusher"] = pc["flusher"]
      ]_vars

\* an oversize Push was refused while the buffer held a full chunk
C10_Witness ==
    /\ \E p \in Pushers : result[p] = "error" /\ pc[p] = "idle"
    /\ chunks # <<>>
    /\ Front(chunks).Size = maxChunkSize

\* C11 (as claimed): an item of size max_chunk_size pushed into the empty
\* buffer stays alone in its chunk: no other item is ever appended to it.
C11_FullItemAlone ==
    \A i \in 1..Len(chunks) :
        (/\ chunks[i].id = 1
         /\ chunks[i].Items # <<>>
         /\ chunks[i].Items[1] = [id |-> 1, size |-> maxChunkSize]) =>
            Len(chunks[i].Items) = 1

\* C11 (amended): no item of size greater than 0 is ever appended to the chunk
\* of an item of size max_chunk_size that was pushed into the empty buffer.
C11_FullItemAloneButEmptyItems ==
    \A i \in 1..Len(chunks) :
        (/\ chunks[i].id = 1
         /\ chunks[i].Items # <<>>
         /\ chunks[i].Items[1] = [id |-> 1, size |-> maxChunkSize]) =>
            /\ chunks[i].Size = maxChunkSize
            /\ \A k \in 2..Len(chunks[i].Items) : chunks[i].Items[k].size = 0

\* the full item was accepted into the empty buffer, later pushes went to a
\* second chunk, and the first chunk still holds the full item
C11_Witness ==
    /\ Len(chunks) = 2
    /\ Back(chunks).id = 1
    /\ Back(chunks).Items[1] = [id |-> 1, size |-> maxChunkSize]
    /\ Front(chunks).Items # <<>>
    /\ Front(chunks).Items[1].size > 0
    /\ \A p \in Pushers : pc[p] = "idle" /\ result[p] = "ok"

\* C19: no Push panics on the closed wake channel, and once Close and every
\* Push have returned and the flusher has exited, every accepted item has been
\* passed to handler.Write (or was evicted).
C19_PushAfterClose ==
    /\ \A p \in Pushers : pc[p] # "panicked"
    /\ (/\ pc["closer"] = "done"
        /\ pc["flusher"] = "exited"
        /\ \A p \in Pushers : pc[p] = "idle") =>
           Accepted \subseteq (presented \cup EvictedItems)

\* ------------------------------------------------------------ Engine
\* (package engine; the TagRouter, Instance and ExecUnit types it uses are in
\* files of the package that are not part of the sources at hand)
notEngine == <<vars, stopping, forward, tail>>

MaxUnits == 3                       \* exec units registered
PluginTypes == {"e", "x"}           \* conf["type"]
Embedded == {"e"}                   \* the types found in plugin.EmbeddedPlugins
RouterNames == {"r1", "r2"}         \* the name argument of RegisterOutputPlugin
Tags == {"a", "b"}                  \* ev.Tag
Patterns == {"a", ".", "("}         \* conf["match"]
BufferConf == {"", "nobuf"}         \* conf["buffer"]: absent, or a name never registered

\* a plugin name: the kind prefix and conf["type"]
PluginName(prefix, type) == <<prefix, type>>
\* strings.HasPrefix(name, prefix)
HasPrefix(name, prefix) == name[1] = prefix

\* regexp.Compile: "(" is not a regular expression
CompileOk(s) == s # "("
\* regexp.MatchString on the tags above: "." matches every tag, "a" the tag a
MatchString(re, tag) == re = "." \/ re = tag

\* TagRouter.Add: appends the pair
RouterAdd(r, re, unit) == Append(r, [re |-> re, unit |-> unit])

\* TagRouter.Route: the unit of the first pair, in insertion order, whose
\* pattern matches the tag; none when no pattern matches
RECURSIVE Route(_, _)
Route(r, tag) ==
    IF r = <<>> THEN NoUnit
    ELSE IF MatchString(Head(r).re, tag) THEN Head(r).unit
    ELSE Route(Tail(r), tag)

\* Engine.pluginInstance: the instance of that name, created on first use; an
\* embedded plugin is launched and appended to embeds, any other is added to
\* the process manager
pluginInstance(e, name) ==
    IF name \in e.plugins THEN e
    ELSE IF name[2] \in Embedded
         THEN [e EXCEPT !.plugins = @ \cup {name}, !.embeds = Append(@, name)]
         ELSE [e EXCEPT !.plugins = @ \cup {name}, !.pm = @ \cup {name}]

\* Engine.addExecUnit: the next unit id, the unit attached to the instance and
\* appended to e.units
addExecUnit(e, ins, kind, match, reg) ==
    LET id == e.unitID + 1
    IN [e EXCEPT !.unitID = id,
                 !.units = Append(@, [id |-> id, ins |-> ins, kind |-> kind,
                                      match |-> match, reg |-> reg]),
                 !.router = @ @@ (id :> <<>>)]

\* Engine.RegisterInputPlugin
RegisterInputPlugin(type) ==
    /\ engine.unitID < MaxUnits
    /\ LET name == PluginName("in-", type)
       IN engine' = addExecUnit(pluginInstance(engine, name), name, "in", "", "")
    /\ called' = [op |-> "RegisterInputPlugin", err |-> FALSE]
    /\ UNCHANGED notEngine

\* the named router of RegisterOutputPlugin: created when it is not there
WithRouter(e, rname) ==
    IF rname \in DOMAIN e.tr THEN e ELSE [e EXCEPT !.tr = @ @@ (rname :> <<>>)]

\* Engine.RegisterOutputPlugin
RegisterOutputPlugin(rname, type, buffer, match) ==
    /\ engine.unitID < MaxUnits
    /\ LET bufName == IF buffer = "" THEN "default" ELSE buffer
           name == PluginName("out-", type)
           e1 == addExecUnit(pluginInstance(engine, name), name, "out", match, rname)
           e2 == WithRouter(e1, rname)
       IN IF bufName \notin engine.bufs
          THEN /\ engine' = engine
               /\ called' = [op |-> "RegisterOutputPlugin", err |-> TRUE]
          ELSE IF ~CompileOk(match)
          THEN /\ engine' = e2
               /\ called' = [op |-> "RegisterOutputPlugin", err |-> TRUE]
          ELSE /\ engine' = [e2 EXCEPT !.tr[rname] = RouterAdd(@, match, e1.unitID)]
               /\ called' = [op |-> "RegisterOutputPlugin", err |-> FALSE]
    /\ UNCHANGED notEngine

\* a registration that appends the new filter before it walks e.filters
PrecedingWithSelf(e, unit) == Append(e.filters, unit)

\* "for _, f := range e.filters": the filters registered before this one
Preceding(e, unit) == e.filters

\* Engine.RegisterFilterPlugin
RegisterFilterPlugin(type, match) ==
    /\ engine.unitID < MaxUnits
    /\ LET name == PluginName("filter-", type)
           e1 == addExecUnit(pluginInstance(engine, name), name, "filter", match, "")
           unit == e1.unitID
           pre == Preceding(e1, unit)
       IN IF ~CompileOk(match)
          THEN /\ engine' = e1
               /\ called' = [op |-> "RegisterFilterPlugin", err |-> TRUE]
          ELSE /\ engine' =
                    [e1 EXCEPT !.ftr = RouterAdd(@, match, unit),
                               !.router = [u \in DOMAIN @ |->
                                             IF \E k \in 1..Len(pre) : pre[k] = u
                                             THEN RouterAdd(@[u], match, unit)
                                             ELSE @[u]],
                               !.filters = Append(@, unit)]
               /\ called' = [op |-> "RegisterFilterPlugin", err |-> FALSE]
    /\ UNCHANGED notEngine

\* the orders in which "for _, tr := range e.tr" can visit the named routers
Orders(S) ==
    {o \in [1..Cardinality(S) -> S] : \A i, j \in 1..Cardinality(S) : o[i] = o[j] => i = j}

\* an Emit that stops at the first router that has a route for the tag
RECURSIVE EmitUntilFirst(_, _, _)
EmitUntilFirst(e, order, tag) ==
    IF order = <<>> THEN <<>>
    ELSE LET u == Route(e.tr[Head(order)], tag)
         IN IF u # NoUnit
            THEN <<[via |-> "output", router |-> Head(order), unit |-> u]>>
            ELSE EmitUntilFirst(e, Tail(order), tag)

\* Engine.Emit: every named router is asked for a route, and the event goes to
\* the unit of each router that has one
RECURSIVE Emit(_, _, _)
Emit(e, order, tag) ==
    IF order = <<>> THEN <<>>
    ELSE LET u == Route(e.tr[Head(order)], tag)
         IN (IF u # NoUnit
             THEN <<[via |-> "output", router |-> Head(order), unit |-> u]>>
             ELSE <<>>) \o Emit(e, Tail(order), tag)

\* a Filter without its else: the event goes on to the outputs as well
FilterAndEmit(e, order, tag) ==
    LET u == Route(e.ftr, tag)
    IN (IF u # NoUnit THEN <<[via |-> "filter", router |-> "", unit |-> u]>> ELSE <<>>)
       \o Emit(e, order, tag)

\* Engine.Filter: the units the event is sent to, in order
FilterSends(e, order, tag) ==
    LET u == Route(e.ftr, tag)
    IN IF u # NoUnit
       THEN <<[via |-> "filter", router |-> "", unit |-> u]>>
       ELSE Emit(e, order, tag)

\* Engine.Filter(ev) is called with an event of that tag
Filter(tag, order) ==
    /\ called' = [op |-> "Filter", tag |-> tag,
                  offered |-> IF Route(engine.ftr, tag) # NoUnit THEN <<>> ELSE order,
                  sent |-> FilterSends(engine, order, tag)]
    /\ UNCHANGED engine
    /\ UNCHANGED notEngine

EngineNext ==
    \/ \E type \in PluginTypes : RegisterInputPlugin(type)
    \/ \E rname \in RouterNames : \E type \in PluginTypes :
          \E buffer \in BufferConf : \E match \in Patterns :
             RegisterOutputPlugin(rname, type, buffer, match)
    \/ \E type \in PluginTypes : \E match \in Patterns : RegisterFilterPlugin(type, match)
    \/ \E tag \in Tags : \E order \in Orders(DOMAIN engine.tr) : Filter(tag, order)

\* the engine alone: the buffer stays as constructed, with the largest queue
InitEngine == Init /\ maxQueueSize = MaxQueueSize

SpecEngine == InitEngine /\ [][EngineNext]_allVars

\* ------------------------------------------------------------ Engine properties
\* the units of a kind whose pattern compiled and matches the tag
Matching(kind, tag) ==
    {k \in 1..Len(engine.units) :
        /\ engine.units[k].kind = kind
        /\ CompileOk(engine.units[k].match)
        /\ MatchString(engine.units[k].match, tag)}

\* the first registered output unit of router r that matches the tag, or none
FirstOutput(r, tag) ==
    LET M == {k \in Matching("out", tag) : engine.units[k].reg = r}
    IN IF M = {} THEN NoUnit
       ELSE engine.units[CHOOSE k \in M : \A j \in M : k <= j].id

\* the first registered filter unit that matches the tag, or none
FirstFilter(tag) ==
    LET M == Matching("filter", tag)
    IN IF M = {} THEN NoUnit
       ELSE engine.units[CHOOSE k \in M : \A j \in M : k <= j].id

\* C12: an event whose tag no filter matches is offered to every named router
\* exactly once, and within each router it is delivered to the first
\* registered unit whose pattern matches, and to no other.
C12_EveryRouterOnceFirstMatch ==
    (called.op = "Filter" /\ Matching("filter", called.tag) = {}) =>
        /\ \A r \in DOMAIN engine.tr :
              Cardinality({i \in 1..Len(called.offered) : called.offered[i] = r}) = 1
        /\ \A i \in 1..Len(called.offered) : called.offered[i] \in DOMAIN engine.tr
        /\ \A i \in 1..Len(called.sent) : called.sent[i].via = "output"
        /\ \A r \in DOMAIN engine.tr :
              LET S == {i \in 1..Len(called.sent) : called.sent[i].router = r}
              IN IF FirstOutput(r, called.tag) = NoUnit
                 THEN S = {}
                 ELSE /\ Cardinality(S) = 1
                      /\ \A i \in S : called.sent[i].unit = FirstOutput(r, called.tag)

\* two routers deliver the event, one of them to the first of its two matching
\* units
C12_Witness ==
    /\ called.op = "Filter"
    /\ Matching("filter", called.tag) = {}
    /\ Len(called.sent) = 2
    /\ Cardinality(Matching("out", called.tag)) = 3

\* C13: an event whose tag a filter matches is sent to the first registered
\* filter whose pattern matches, and in that call to no other filter and to no
\* output.
C13_FirstFilterOnly ==
    (called.op = "Filter" /\ Matching("filter", called.tag) # {}) =>
        called.sent = <<[via |-> "filter", router |-> "", unit |-> FirstFilter(called.tag)]>>

\* two filters and an output match the tag; only the first filter gets the event
C13_Witness ==
    /\ called.op = "Filter"
    /\ Cardinality(Matching("filter", called.tag)) = 2
    /\ Matching("out", called.tag) # {}
    /\ Len(called.sent) = 1

\* C14: the filters are the filter units registered without error, in order,
\* and the outbound router of the k-th holds exactly the entries of the
\* filters registered after it, in registration order.
C14_FilterChain ==
    LET fs == engine.filters
        n == Len(fs)
    IN /\ \A k \in 1..n : \A j \in 1..n : k < j => fs[k] < fs[j]
       /\ {fs[k] : k \in 1..n} =
             {engine.units[i].id : i \in {i \in 1..Len(engine.units) :
                 engine.units[i].kind = "filter" /\ CompileOk(engine.units[i].match)}}
       /\ \A k \in 1..n :
             engine.router[fs[k]] =
                [j \in 1..(n - k) |-> [re |-> engine.units[fs[k + j]].match,
                                       unit |-> fs[k + j]]]

\* three filters registered
C14_Witness == Len(engine.filters) = 3

\* C18: a registration that returns an error leaves the engine as it was.
C18_FailedRegistrationAtomic ==
    [][(/\ called'.op \in {"RegisterOutputPlugin", "RegisterFilterPlugin"}
        /\ called'.err
        /\ <<engine, called>>' # <<engine, called>>) => engine' = engine]_allVars

\* ------------------------------------------------------------ Engine.Stop
notStopping == <<vars, called, forward, tail>>

\* every plugin name the three Register methods can create
PluginNames == {PluginName(prefix, type) :
                   prefix \in {"in-", "filter-", "out-"}, type \in PluginTypes}

\* the engine after the instances of P have been created
RECURSIVE WithPlugins(_, _)
WithPlugins(e, P) ==
    IF P = {} THEN e
    ELSE LET n == CHOOSE n \in P : TRUE
         IN WithPlugins(pluginInstance(e, n), P \ {n})

\* a configured engine about to be stopped; the plugins of mute never answer a
\* stop request
InitStop ==
    /\ NewMemory
    /\ maxQueueSize = MaxQueueSize
    /\ called = NotCalled
    /\ forward = ForwardIdle
    /\ tail = TailInputNew
    /\ \E P \in SUBSET PluginNames : \E M \in SUBSET P :
          /\ engine = WithPlugins(New, P)
          /\ stopping = [NotStopping EXCEPT !.mute = M]

\* the order of the phases of Stop
NextPhase(prefix) ==
    IF prefix = "in-" THEN "filter-" ELSE IF prefix = "filter-" THEN "out-" ELSE "pmWait"

\* Engine.Stop is called: the backstop timer is set and the first phase begins
Stop ==
    /\ stopping.pc = "idle"
    /\ stopping' = [stopping EXCEPT !.pc = "in-", !.timer = "armed"]
    /\ UNCHANGED engine
    /\ UNCHANGED notStopping

\* stopPlugins: the goroutine of an instance of the phase calls ins.Stop();
\* Instance.Stop sends the stop request to the plugin
InstanceStop(name) ==
    /\ name \in engine.plugins
    /\ HasPrefix(name, stopping.pc)
    /\ name \notin stopping.begun
    /\ stopping' = [stopping EXCEPT !.begun = @ \cup {name}]
    /\ UNCHANGED engine
    /\ UNCHANGED notStopping

\* the plugin acknowledges the stop request
Terminated(name) ==
    /\ name \in stopping.begun
    /\ name \notin stopping.acked
    /\ name \notin stopping.mute
    /\ name \notin stopping.exited
    /\ stopping' = [stopping EXCEPT !.acked = @ \cup {name}]
    /\ UNCHANGED engine
    /\ UNCHANGED notStopping

\* Instance.Stop returns: the plugin has acknowledged, or its child process
\* has gone and the connection with it
InstanceStopReturn(name) ==
    /\ name \in stopping.begun
    /\ name \notin stopping.returned
    /\ name \in stopping.acked \/ name \in stopping.exited
    /\ stopping' = [stopping EXCEPT !.returned = @ \cup {name}]
    /\ UNCHANGED engine
    /\ UNCHANGED notStopping

\* a stopPlugins that does not wait for its goroutines
WgNoWait(prefix) == TRUE

\* wg.Wait() of stopPlugins: every goroutine of the phase has called wg.Done()
WgWait(prefix) ==
    \A name \in engine.plugins : HasPrefix(name, prefix) => name \in stopping.returned

\* stopPlugins returns and Stop goes on to the next phase
stopPlugins ==
    /\ stopping.pc \in {"in-", "filter-", "out-"}
    /\ WgWait(stopping.pc)
    /\ stopping' = [stopping EXCEPT !.pc = NextPhase(@)]
    /\ UNCHANGED engine
    /\ UNCHANGED notStopping

\* the child process of a plugin whose transport was closed exits
ChildExit(name) ==
    /\ name \in engine.pm
    /\ name \in stopping.returned
    /\ name \notin stopping.exited
    /\ stopping' = [stopping EXCEPT !.exited = @ \cup {name}]
    /\ UNCHANGED engine
    /\ UNCHANGED notStopping

\* the timer of time.AfterFunc fires: e.pm.Stop ends every child of the
\* process manager
pmStop ==
    /\ stopping.timer = "armed"
    /\ stopping' = [stopping EXCEPT !.timer = "fired", !.exited = @ \cup engine.pm]
    /\ UNCHANGED engine
    /\ UNCHANGED notStopping

\* e.pm.Wait() returns when every child has exited
pmWait ==
    /\ stopping.pc = "pmWait"
    /\ engine.pm \subseteq stopping.exited
    /\ stopping' = [stopping EXCEPT !.pc = "close", !.waited = TRUE]
    /\ UNCHANGED engine
    /\ UNCHANGED notStopping

\* close(e.stopped), and Stop returns
CloseStopped ==
    /\ stopping.pc = "close"
    /\ stopping' = [stopping EXCEPT !.pc = "done", !.stopped = TRUE]
    /\ UNCHANGED engine
    /\ UNCHANGED notStopping

StopNext ==
    \/ Stop
    \/ \E name \in PluginNames : InstanceStop(name)
    \/ \E name \in PluginNames : Terminated(name)
    \/ \E name \in PluginNames : InstanceStopReturn(name)
    \/ stopPlugins
    \/ \E name \in PluginNames : ChildExit(name)
    \/ pmStop
    \/ pmWait
    \/ CloseStopped

SpecStop == InitStop /\ [][StopNext]_allVars

\* every step that can be taken is taken
SpecStopFair == SpecStop /\ WF_allVars(StopNext)

\* the instances of a kind
Instances(prefix) == {name \in engine.plugins : HasPrefix(name, prefix)}

\* C15: no filter instance's Stop begins before the Stop of every input
\* instance has returned, no output instance's Stop begins before the Stop of
\* every filter instance has returned, and the stopped channel is closed only
\* after the Stop of every instance has returned and the wait for the process
\* manager has completed.
C15_PhasedStop ==
    /\ Instances("filter-") \cap stopping.begun # {} =>
          Instances("in-") \subseteq stopping.returned
    /\ Instances("out-") \cap stopping.begun # {} =>
          Instances("filter-") \subseteq stopping.returned
    /\ stopping.stopped =>
          /\ engine.plugins \subseteq stopping.returned
          /\ stopping.waited
          /\ engine.pm \subseteq stopping.exited

\* Stop has returned on an engine with an input, a filter and an output
C15_Witness ==
    /\ stopping.stopped
    /\ Instances("in-") # {}
    /\ Instances("filter-") # {}
    /\ Instances("out-") # {}
    /\ engine.pm # {}
    /\ engine.embeds # <<>>

\* C16: once Stop has been called, it returns and the stopped channel that Wait
\* reads is closed, whichever plugins never acknowledge.
C16_StopReturns == (stopping.pc # "idle") ~> stopping.stopped

\* ------------------------------------------------------------ in-forward
\* (plugin/in-forward: the plugin is known from its test and from the
\* description of the forward input; a frame is a sequence of encoded values)
notForward == <<vars, engine, called, stopping, tail>>

MaxEntries == 3                     \* sub-entries of one nested frame
Times == {1, 2}                     \* t1, t2
Records == {"seq1", "seq2"}         \* the record maps
Entries == [time : Times, record : Records]

\* enc.Encode of an array: its header, then each element
EncodeArray(elems) == <<[k |-> "array", v |-> Len(elems)]>> \o elems
EncodeString(s) == [k |-> "str", v |-> s]
EncodeTime(t) == [k |-> "time", v |-> t]
EncodeMap(r) == [k |-> "map", v |-> r]
EncodeBytes(b) == [k |-> "bin", v |-> b]

\* enc.Encode([]interface{}{t, record}) of one sub-entry
EncodeEntry(en) == EncodeArray(<<EncodeTime(en.time), EncodeMap(en.record)>>)

\* a buffer that holds the first sub-entry only
PackedFirst(entries) ==
    IF entries = <<>> THEN <<>> ELSE EncodeEntry(Head(entries))

\* b.Bytes() after every sub-entry was encoded into b, one after the other
RECURSIVE Packed(_)
Packed(entries) ==
    IF entries = <<>> THEN <<>>
    ELSE EncodeEntry(Head(entries)) \o Packed(Tail(entries))

\* the frame [tag, time, record]
FlatFrame(tag, en) ==
    EncodeArray(<<EncodeString(tag), EncodeTime(en.time), EncodeMap(en.record)>>)

\* the frame [tag, bytes]
NestedFrame(tag, entries) ==
    EncodeArray(<<EncodeString(tag), EncodeBytes(Packed(entries))>>)

\* the sub-entries of a packed byte string are decoded one after the other
\* until the bytes end; each gives an event with the tag of the frame
RECURSIVE DecodeEntries(_, _)
DecodeEntries(tag, b) ==
    IF Len(b) < 3 \/ b[1] # [k |-> "array", v |-> 2] \/ b[2].k # "time" \/ b[3].k # "map"
    THEN <<>>
    ELSE <<[tag |-> tag, time |-> b[2].v, record |-> b[3].v]>>
         \o DecodeEntries(tag, SubSeq(b, 4, Len(b)))

\* ForwardInput.handleConnection on a connection that carries one frame: the
\* events passed to env.Emit, in order
handleConnection(buf) ==
    IF buf = <<>> \/ buf[1].k # "array" \/ Len(buf) # buf[1].v + 1 \/ buf[2].k # "str"
    THEN <<>>
    ELSE IF buf[1].v = 3 /\ buf[3].k = "time" /\ buf[4].k = "map"
    THEN <<[tag |-> buf[2].v, time |-> buf[3].v, record |-> buf[4].v]>>
    ELSE IF buf[1].v = 2 /\ buf[3].k = "bin"
    THEN DecodeEntries(buf[2].v, buf[3].v)
    ELSE <<>>

\* a client sends one flat frame
SendFlat(tag, en) ==
    /\ forward' = [pc |-> "handled", kind |-> "flat", tag |-> tag, entries |-> <<en>>,
                   events |-> handleConnection(FlatFrame(tag, en))]
    /\ UNCHANGED notForward

\* a client sends one nested frame
SendNested(tag, entries) ==
    /\ forward' = [pc |-> "handled", kind |-> "nested", tag |-> tag, entries |-> entries,
                   events |-> handleConnection(NestedFrame(tag, entries))]
    /\ UNCHANGED notForward

\* the sequences of at most n sub-entries
SeqsUpTo(n) == UNION {[1..k -> Entries] : k \in 0..n}

ForwardNext ==
    \/ \E tag \in Tags : \E en \in Entries : SendFlat(tag, en)
    \/ \E tag \in Tags : \E entries \in SeqsUpTo(MaxEntries) : SendNested(tag, entries)

SpecForward == InitEngine /\ [][ForwardNext]_allVars

\* C17: a nested frame of N sub-entries gives exactly N events, in the order
\* of the sub-entries, each with the tag of the frame and the time and record
\* of its sub-entry; a flat frame gives exactly one event with the tag, time
\* and record of the frame.
C17_OneEventPerEntry ==
    forward.pc = "handled" =>
        /\ Len(forward.events) = Len(forward.entries)
        /\ forward.kind = "flat" => Len(forward.events) = 1
        /\ \A i \in 1..Len(forward.entries) :
              forward.events[i] = [tag |-> forward.tag,
                                   time |-> forward.entries[i].time,
                                   record |-> forward.entries[i].record]

\* a nested frame of two different sub-entries, as in the test
C17_Witness ==
    /\ forward.pc = "handled"
    /\ forward.kind = "nested"
    /\ Len(forward.entries) = 2
    /\ forward.entries[1] = [time |-> 1, record |-> "seq1"]
    /\ forward.entries[2] = [time |-> 2, record |-> "seq2"]
    /\ Len(forward.events) = 2

\* ------------------------------------------------------------ in-tail
\* (TailInput: Start, open, Scan.  tail.pc is the position of the goroutine
\* that scans -- Start, then the watcher goroutine it starts; tail.open holds
\* one position for each call of open: the call of Start and those of timers;
\* readers are numbered from 1, and r = 0 is the nil reader)
notTail == <<vars, engine, called, stopping, forward>>

MaxReopen == 3                      \* rotations detected

\* Start calls i.open()
StartOpen ==
    /\ tail.pc = "new"
    /\ tail' = [tail EXCEPT !.pc = "opening", !.open = Append(@, "called")]
    /\ UNCHANGED notTail

\* an open that does not take the mutex
OpenWithoutLock(t) == TRUE

\* i.m.Lock() of open can go on
OpenMayLock(t) == ~t.m

\* open: i.m.Lock()
OpenLock(k) ==
    /\ k \in 1..Len(tail.open)
    /\ tail.open[k] \in {"called", "scheduled"}
    /\ OpenMayLock(tail)
    /\ tail' = [tail EXCEPT !.m = TRUE, !.open[k] = "locked"]
    /\ UNCHANGED notTail

\* open: i.rotating = false, and the reader, if there is one, is closed
OpenClose(k) ==
    /\ k \in 1..Len(tail.open)
    /\ tail.open[k] = "locked"
    /\ tail' = [tail EXCEPT !.rotating = FALSE,
                            !.closed = IF tail.r # 0 THEN @ \cup {tail.r} ELSE @,
                            !.open[k] = "closed"]
    /\ UNCHANGED notTail

\* open: i.r, _ = NewPositionReader(i.pe), which gives a new reader or nil,
\* and the deferred i.m.Unlock()
OpenReader(k, ok) ==
    /\ k \in 1..Len(tail.open)
    /\ tail.open[k] = "closed"
    /\ tail' = [tail EXCEPT !.r = IF ok THEN tail.readers + 1 ELSE 0,
                            !.readers = IF ok THEN @ + 1 ELSE @,
                            !.m = FALSE,
                            !.open[k] = "done"]
    /\ UNCHANGED notTail

\* Start: open has returned and i.Scan() is called
StartScan ==
    /\ tail.pc = "opening"
    /\ tail.open[1] = "done"
    /\ tail' = [tail EXCEPT !.pc = "scan"]
    /\ UNCHANGED notTail

\* Scan: i.m.Lock()
ScanLock ==
    /\ tail.pc = "scan"
    /\ ~tail.m
    /\ tail' = [tail EXCEPT !.m = TRUE, !.pc = "check"]
    /\ UNCHANGED notTail

\* Scan: !i.rotating && i.pe.IsRotated()
Detects(t, isRotated) == ~t.rotating /\ isRotated

\* Scan: the rotation check, which sets rotating and schedules open with
\* time.AfterFunc; then Scan returns when there is no reader, or reads
ScanCheck(isRotated) ==
    /\ tail.pc = "check"
    /\ isRotated => Len(tail.open) <= MaxReopen
    /\ LET t1 == IF Detects(tail, isRotated)
                 THEN [tail EXCEPT !.rotating = TRUE, !.open = Append(@, "scheduled")]
                 ELSE tail
       IN tail' = IF t1.r = 0
                  THEN [t1 EXCEPT !.m = FALSE, !.pc = "watch"]
                  ELSE [t1 EXCEPT !.pc = "read", !.reading = t1.r]
    /\ UNCHANGED notTail

\* Scan: i.r.ReadLine() gives a line
ScanReadLine ==
    /\ tail.pc = "read"
    /\ tail' = [tail EXCEPT !.lines = TRUE]
    /\ UNCHANGED notTail

\* Scan: i.r.ReadLine() gives io.EOF or an error; Scan returns and unlocks
ScanReturn ==
    /\ tail.pc = "read"
    /\ tail' = [tail EXCEPT !.m = FALSE, !.pc = "watch", !.reading = 0, !.lines = FALSE]
    /\ UNCHANGED notTail

\* the watcher goroutine: a file event or the 10 s tick, and i.Scan() is called
Watch ==
    /\ tail.pc = "watch"
    /\ tail' = [tail EXCEPT !.pc = "scan"]
    /\ UNCHANGED notTail

TailNext ==
    \/ StartOpen
    \/ \E k \in 1..(MaxReopen + 1) : OpenLock(k)
    \/ \E k \in 1..(MaxReopen + 1) : OpenClose(k)
    \/ \E k \in 1..(MaxReopen + 1) : \E ok \in BOOLEAN : OpenReader(k, ok)
    \/ StartScan
    \/ ScanLock
    \/ \E isRotated \in BOOLEAN : ScanCheck(isRotated)
    \/ ScanReadLine
    \/ ScanReturn
    \/ Watch

SpecTail == InitEngine /\ [][TailNext]_allVars

\* the calls of open that are between Lock and Unlock
InOpen == {k \in 1..Len(tail.open) : tail.open[k] \in {"locked", "closed"}}

\* the opens a timer was set for that have not yet cleared the rotating flag
PendingOpen == {k \in 2..Len(tail.open) : tail.open[k] \in {"scheduled", "locked"}}

\* C20: Scan and open exclude each other: at most one of them is between Lock
\* and Unlock; while Scan reads, the reader it reads from is the current one
\* and is not closed; and at most one scheduled open is pending, which is so
\* exactly while the rotating flag is set.
C20_ScanOpenExclusive ==
    /\ Cardinality(InOpen) + (IF tail.pc \in {"check", "read"} THEN 1 ELSE 0) <= 1
    /\ tail.pc = "read" =>
          /\ tail.reading # 0
          /\ tail.reading = tail.r
          /\ tail.reading \notin tail.closed
    /\ Cardinality(PendingOpen) <= 1
    /\ tail.rotating <=> PendingOpen # {}

\* a Scan reads from the reader of an earlier reopen while the open of the
\* rotation it has just detected is pending
C20_Witness ==
    /\ tail.pc = "read"
    /\ tail.lines
    /\ tail.readers >= 2
    /\ Cardinality(PendingOpen) = 1
    /\ tail.closed # {}

====
